---- MODULE Spec2Model ----
(***************************************************************************)
(* Composite Simpson approximation, approx(f, a, b, n_node, p), of         *)
(* src/simpson.py (src/Simpson.py is the same function with the            *)
(* accumulator named sum).                                                 *)
(*                                                                         *)
(* Numbers are exact rationals <<num, den>> with den > 0 in lowest terms,  *)
(* so the arithmetic of the code is followed without rounding; only the    *)
(* string formatting of the report rounds (to p decimals).  The integrand  *)
(* f is a polynomial c0 + c1 x + c2 x^2 + c3 x^3 + c4 x^4 given by its     *)
(* coefficients <<c0, c1, c2, c3, c4>>; a and b are Python ints.           *)
(*                                                                         *)
(* One action is one statement (or one loop iteration) of approx.  The     *)
(* frame's slots (n, h, nodes, values, sum_n, i, result) keep whatever     *)
(* they held until the code assigns them again.                            *)
(*                                                                         *)
(* The call approx(np.sin, 0, 1, 9) made when the module is imported (line *)
(* 67) is one more call of the same function; its integrand is not a       *)
(* polynomial, so it is not among the calls drawn here.                    *)
(***************************************************************************)
EXTENDS Integers, Sequences, FiniteSets

VARIABLES pc, calls, f, a, b, n_node, p,
          n, h, nodes, values, sum_n, i, result,
          out, err, stages, terms, prev

vars == <<pc, calls, f, a, b, n_node, p, n, h, nodes, values, sum_n, i,
          result, out, err, stages, terms, prev>>

args == <<f, a, b, n_node, p>>
frame == <<n, h, nodes, values, sum_n, i, result>>

\* ------------------------------------------------------------- bounds
MaxCoef == 1
MaxB == 1
MaxNode == 7
MaxP == 1
MaxCalls == 2
MaxVal == 1

\* Polynomials of degree <= 4: c0..c3 in 0..MaxCoef, c4 in {-1, 0, 1}.
Polys == { <<c0, c1, c2, c3, c4>> : c0 \in 0..MaxCoef, c1 \in 0..MaxCoef,
                                    c2 \in 0..MaxCoef, c3 \in 0..MaxCoef,
                                    c4 \in {-1, 0, 1} }
Bounds == (-1)..MaxB
NodeCounts == (-1)..MaxNode
Precisions == 0..MaxP

\* ------------------------------------------------- exact arithmetic
Abs(x) == IF x < 0 THEN -x ELSE x

RECURSIVE GCD(_, _)
GCD(x, y) == IF y = 0 THEN x ELSE GCD(y, x % y)

\* The rational num/den (den # 0) in lowest terms with a positive denominator.
Rat(num, den) ==
    LET g == GCD(Abs(num), Abs(den))
        s == IF den < 0 THEN -1 ELSE 1
    IN  <<(s * num) \div g, (s * den) \div g>>

RInt(k) == <<k, 1>>
RAdd(x, y) == Rat(x[1] * y[2] + y[1] * x[2], x[2] * y[2])
RSub(x, y) == Rat(x[1] * y[2] - y[1] * x[2], x[2] * y[2])
RMul(x, y) == Rat(x[1] * y[1], x[2] * y[2])
RDiv(x, y) == Rat(x[1] * y[2], x[2] * y[1])
\* Variant: result - sum_n printed as it is, without abs.
RAbs_Signed(x) == x
\* abs(x) (line 64).
RAbs(x) == <<Abs(x[1]), x[2]>>

RECURSIVE Pow10(_)
Pow10(k) == IF k = 0 THEN 1 ELSE 10 * Pow10(k - 1)

\* ------------------------------------------------------ the integrand
\* f at one point x (Horner).
Eval(c, x) ==
    RAdd(RInt(c[1]), RMul(x,
    RAdd(RInt(c[2]), RMul(x,
    RAdd(RInt(c[3]), RMul(x,
    RAdd(RInt(c[4]), RMul(x, RInt(c[5])))))))))

\* f(nodes): f applied to the whole array, order kept (line 54).
Apply(c, xs) == [k \in 1..Len(xs) |-> Eval(c, xs[k])]

\* ------------------------------------------------ the code's formulas
\* Variant: the test inverted, if n_node & 1.
IsEven_Inverted(k) == k % 2 = 1
\* not n_node & 1 (line 48): the low bit of n_node is clear.
IsEven(k) == k % 2 = 0

\* Variant: n rounded up, (n_node + 1) // 2.
HalfCount_RoundedUp(k) == (k + 1) \div 2
\* n = (n_node - 1) // 2 (line 51), floor division.
HalfCount(k) == (k - 1) \div 2

\* h = (b - a)/n (line 52), for n # 0.
Width(lo, hi, cnt) == RDiv(RInt(hi - lo), RInt(cnt))

\* Variant: linspace without its endpoint, step = (b - a)/num.
Linspace_NoEndpoint(lo, hi, num) ==
    [k \in 1..num |->
        RAdd(RMul(RInt(k - 1), RDiv(RInt(hi - lo), RInt(num))), RInt(lo))]
\* np.linspace(a, b, num) for num >= 0 (line 53): num points, both ends
\* included, step = (b - a)/(num - 1); the one point a when num = 1.
Linspace(lo, hi, num) ==
    IF num = 1 THEN <<RInt(lo)>>
    ELSE [k \in 1..num |->
            RAdd(RMul(RInt(k - 1), RDiv(RInt(hi - lo), RInt(num - 1))), RInt(lo))]

\* The 0-based indices read by iteration j of the loop and the factor each
\* value is multiplied by (line 59).
LoopIdx(j) == <<2 * j, 2 * j + 1, 2 * j + 2>>
\* Variant: the midpoint taken twice instead of four times.
LoopCoef_Trapezoid == <<1, 2, 1>>
LoopCoef == <<1, 4, 1>>

\* values[k] for a 0-based k.
At(vs, k) == vs[k + 1]

\* values[2*i] + 4*values[2*i+1] + values[2*i+2] (line 59).
Term(vs, j) ==
    LET ix == LoopIdx(j)
    IN  RAdd(RAdd(RMul(RInt(LoopCoef[1]), At(vs, ix[1])),
                  RMul(RInt(LoopCoef[2]), At(vs, ix[2]))),
             RMul(RInt(LoopCoef[3]), At(vs, ix[3])))

\* Variant: h/3, the factor of the single-width form, applied to the
\* double-width h.
ScaleFactor_Third(w) == RDiv(w, RInt(3))
\* Variant: the accumulator keeps what it held, as a module-level sum_n
\* that is never reset would.
SumStart_Kept == sum_n
\* sum_n = 0 (line 56).
SumStart == RInt(0)

\* h/6 (line 60).
ScaleFactor(w) == RDiv(w, RInt(6))

\* The integral of c over [lo, hi] from the antiderivative
\* sum of c_k x^(k+1)/(k+1).
Primitive(c, x) ==
    LET X == RInt(x)
    IN  RMul(X,
        RAdd(RInt(c[1]), RMul(X,
        RAdd(Rat(c[2], 2), RMul(X,
        RAdd(Rat(c[3], 3), RMul(X,
        RAdd(Rat(c[4], 4), RMul(X, Rat(c[5], 5))))))))))
AnalyticIntegral(c, lo, hi) == RSub(Primitive(c, hi), Primitive(c, lo))

\* integrate.quad(f, a, b)[0] (line 61).  QUADPACK's Gauss-Kronrod rule
\* integrates a polynomial of degree <= 4 exactly, reversed bounds give the
\* signed integral, and the value depends on (f, a, b) only.
Quad(c, lo, hi) == AnalyticIntegral(c, lo, hi)

\* f"{x:.{p}f}" (lines 62-64): x rounded to p decimals, ties to even, as
\* the sign and the integer x * 10^p shown; a negative x keeps its sign
\* even when it rounds to zero.
Fmt(x, prec) ==
    LET m == Abs(x[1]) * Pow10(prec)
        q == m \div x[2]
        r == m % x[2]
        up == (2 * r > x[2]) \/ (2 * r = x[2] /\ q % 2 = 1)
    IN  [neg |-> x[1] < 0, digits |-> IF up THEN q + 1 ELSE q]

\* One printed line: the label, the value handed to the format and its text.
Line(label, x, prec) == [label |-> label, value |-> x, text |-> Fmt(x, prec)]

\* Variant: the first line is printed before the reference is computed.
Order_PrintEarly == <<"check", "setup", "sample", "init", "loop", "scale",
                      "print1", "quad", "print2", "print3", "done">>
\* The statements of approx in program order, by label:
\*   check 48-49, setup 51-52, sample 53-54, init 56, loop 58-59,
\*   scale 60, quad 61, print1 62, print2 63, print3 64.
Order == <<"check", "setup", "sample", "init", "loop", "scale", "quad",
           "print1", "print2", "print3", "done">>
After(label) ==
    LET k == CHOOSE j \in 1..Len(Order) : Order[j] = label
    IN  Order[k + 1]

\* ------------------------------------------------------------ actions
Init ==
    /\ pc = "idle"
    /\ calls = 0
    /\ f = <<0, 0, 0, 0, 0>> /\ a = 0 /\ b = 0 /\ n_node = 0 /\ p = 0
    /\ n = 0 /\ h = RInt(0) /\ nodes = <<>> /\ values = <<>>
    /\ sum_n = RInt(0) /\ i = 0 /\ result = RInt(0)
    /\ out = <<>> /\ err = "none" /\ stages = <<>> /\ terms = <<>>
    /\ prev = [out |-> <<>>, err |-> "none"]

\* A statement completed: control moves to the next one.
Step(label) ==
    /\ pc' = After(label)
    /\ stages' = Append(stages, label)
    /\ err' = err

\* A statement raised: the exception leaves approx.
Raise(kind) ==
    /\ pc' = "error"
    /\ err' = kind
    /\ stages' = stages

\* approx(f, a, b, n_node, p) is called (line 40).
Call ==
    /\ pc = "idle"
    /\ calls = 0
    /\ f' \in Polys /\ a' \in Bounds /\ b' \in Bounds
    /\ n_node' \in NodeCounts /\ p' \in Precisions
    /\ calls' = 1
    /\ pc' = Order[1]
    /\ out' = <<>> /\ err' = "none" /\ stages' = <<>> /\ terms' = <<>>
    /\ UNCHANGED <<frame, prev>>

\* The call has returned or raised; the caller calls again with the
\* same arguments.
Recall ==
    /\ pc \in {"done", "error"}
    /\ calls < MaxCalls
    /\ calls' = calls + 1
    /\ prev' = [out |-> out, err |-> err]
    /\ pc' = Order[1]
    /\ out' = <<>> /\ err' = "none" /\ stages' = <<>> /\ terms' = <<>>
    /\ UNCHANGED <<args, frame>>

\* if not n_node & 1: raise ValueError (lines 48-49).
Check ==
    /\ pc = "check"
    /\ IF IsEven(n_node) THEN Raise("ValueError") ELSE Step("check")
    /\ UNCHANGED <<calls, args, frame, out, terms, prev>>

\* n = (n_node - 1) // 2; h = (b - a)/n (lines 51-52).
Setup ==
    /\ pc = "setup"
    /\ n' = HalfCount(n_node)
    /\ IF n' = 0
       THEN Raise("ZeroDivisionError") /\ h' = h
       ELSE Step("setup") /\ h' = Width(a, b, n')
    /\ UNCHANGED <<calls, args, nodes, values, sum_n, i, result, out, terms, prev>>

\* nodes = np.linspace(a, b, n_node); values = f(nodes) (lines 53-54).
\* linspace raises ValueError for a negative number of samples.
Sample ==
    /\ pc = "sample"
    /\ IF n_node < 0
       THEN Raise("ValueError") /\ UNCHANGED <<nodes, values>>
       ELSE /\ Step("sample")
            /\ nodes' = Linspace(a, b, n_node)
            /\ values' = Apply(f, nodes')
    /\ UNCHANGED <<calls, args, n, h, sum_n, i, result, out, terms, prev>>

\* sum_n = 0 (line 56); range(n) starts at i = 0 (line 58).
InitSum ==
    /\ pc = "init"
    /\ sum_n' = SumStart
    /\ i' = 0
    /\ Step("init")
    /\ UNCHANGED <<calls, args, n, h, nodes, values, result, out, terms, prev>>

\* for i in range(n): sum_n += ... (lines 58-59): one iteration, or the
\* end of the range.  An index past the end of values raises IndexError.
Loop ==
    /\ pc = "loop"
    /\ IF i < n
       THEN IF \E k \in 1..3 : LoopIdx(i)[k] >= Len(values)
            THEN Raise("IndexError") /\ UNCHANGED <<sum_n, i, terms>>
            ELSE /\ sum_n' = RAdd(sum_n, Term(values, i))
                 /\ terms' = terms \o [k \in 1..3 |-> <<LoopIdx(i)[k], LoopCoef[k]>>]
                 /\ i' = i + 1
                 /\ UNCHANGED <<pc, err, stages>>
       ELSE Step("loop") /\ UNCHANGED <<sum_n, i, terms>>
    /\ UNCHANGED <<calls, args, n, h, nodes, values, result, out, prev>>

\* sum_n *= h/6 (line 60).
Scale ==
    /\ pc = "scale"
    /\ sum_n' = RMul(sum_n, ScaleFactor(h))
    /\ Step("scale")
    /\ UNCHANGED <<calls, args, n, h, nodes, values, i, result, out, terms, prev>>

\* result, _ = integrate.quad(f, a, b) (line 61).
Reference ==
    /\ pc = "quad"
    /\ result' = Quad(f, a, b)
    /\ Step("quad")
    /\ UNCHANGED <<calls, args, n, h, nodes, values, sum_n, i, out, terms, prev>>

\* print(f"{'Python calculated:':<20}{result:.{p}f}") (line 62).
Print1 ==
    /\ pc = "print1"
    /\ out' = Append(out, Line("Python calculated:", result, p))
    /\ Step("print1")
    /\ UNCHANGED <<calls, args, frame, terms, prev>>

\* print(f"{'We calculated:':<20}{sum_n:.{p}f}") (line 63).
Print2 ==
    /\ pc = "print2"
    /\ out' = Append(out, Line("We calculated:", sum_n, p))
    /\ Step("print2")
    /\ UNCHANGED <<calls, args, frame, terms, prev>>

\* print(f"{'Difference is':<20}{abs(result-sum_n):.{p}f}") (line 64).
Print3 ==
    /\ pc = "print3"
    /\ out' = Append(out, Line("Difference is", RAbs(RSub(result, sum_n)), p))
    /\ Step("print3")
    /\ UNCHANGED <<calls, args, frame, terms, prev>>

Next ==
    \/ Call \/ Recall \/ Check \/ Setup \/ Sample \/ InitSum \/ Loop
    \/ Scale \/ Reference \/ Print1 \/ Print2 \/ Print3

Spec == Init /\ [][Next]_vars

\* ---------------------------------------- the two forms of the rule
\* The sum of vs[k] over the 0-based k = first, first + 2, ... below
\* Len(vs) - back: np.sum(values[first:-back:2]).
RECURSIVE SliceSum(_, _, _)
SliceSum(vs, first, back) ==
    IF first >= Len(vs) - back THEN RInt(0)
    ELSE RAdd(At(vs, first), SliceSum(vs, first + 2, back))

\* The vectorized form (commented-out variant, lines 109-113):
\*   h = (b - a)/(n_node - 1)
\*   h/3 * (values[0] + 4*np.sum(values[1:-1:2])
\*          + 2*np.sum(values[2:-2:2]) + values[-1])
WeightedForm(vs, lo, hi, num) ==
    LET hs == RDiv(RInt(hi - lo), RInt(num - 1))
    IN  RMul(RDiv(hs, RInt(3)),
             RAdd(RAdd(RAdd(At(vs, 0),
                            RMul(RInt(4), SliceSum(vs, 1, 1))),
                       RMul(RInt(2), SliceSum(vs, 2, 2))),
                  At(vs, Len(vs) - 1)))

\* The summation (lines 56-60) for an integrand known only by its values on
\* the nodes: the state at line 56 of a call with an odd n_node >= 3 and
\* a < b, for every value sequence over ValSet.  f stands for that table.
ValSet == {RInt(v) : v \in (-1)..MaxVal}
InitV ==
    /\ pc = "init"
    /\ calls = 1
    /\ n_node \in {k \in 3..MaxNode : k % 2 = 1}
    /\ a \in Bounds /\ b \in Bounds /\ a < b
    /\ p = 0
    /\ n = HalfCount(n_node)
    /\ h = Width(a, b, n)
    /\ nodes = Linspace(a, b, n_node)
    /\ values \in [1..n_node -> ValSet]
    /\ f = values
    /\ sum_n = RInt(0) /\ i = 0 /\ result = RInt(0)
    /\ out = <<>> /\ err = "none" /\ terms = <<>>
    /\ stages = <<"check", "setup", "sample">>
    /\ prev = [out |-> <<>>, err |-> "none"]

NextV == InitSum \/ Loop \/ Scale

SpecV == InitV /\ [][NextV]_vars

\* ------------------------------------------------------------ properties
Range(s) == {s[k] : k \in 1..Len(s)}
InCall == calls >= 1
Returned == pc \in {"done", "error"}
EvenCount == n_node % 2 = 0
OddFrom3 == n_node % 2 = 1 /\ n_node >= 3
InitialFrame ==
    /\ n = 0 /\ h = <<0, 1>> /\ nodes = <<>> /\ values = <<>>
    /\ sum_n = <<0, 1>> /\ i = 0 /\ result = <<0, 1>>

\* C1: with an even n_node the call can only be at its node-count check or
\* have failed there with ValueError (the InvalidNodeCount error): no
\* statement has completed, no loop term was read, nothing is printed, and
\* in the first call no slot of the frame (n, h, nodes, values, sum_n,
\* result) has been written.
C1_EvenRejectedFirst ==
    (InCall /\ EvenCount) =>
        /\ pc \in {"check", "error"}
        /\ pc = "error" => err = "ValueError"
        /\ pc = "check" => err = "none"
        /\ stages = <<>> /\ terms = <<>> /\ out = <<>>
        /\ calls = 1 => InitialFrame
C1_Witness ==
    /\ n_node = 4 /\ pc = "error" /\ err = "ValueError"
    /\ out = <<>> /\ nodes = <<>>

\* C2 (as claimed): every call with n_node < 3 ends in ValueError, the error
\* kind of an even n_node, and prints nothing.
C2_SmallCountIsInvalidNodeCount ==
    (InCall /\ n_node < 3 /\ Returned) =>
        (pc = "error" /\ err = "ValueError" /\ out = <<>>)

\* C3 (as claimed): a call with a >= b and an odd n_node >= 3 computes no
\* estimate, prints nothing and ends in an error.
C3_ReversedIntervalRejected ==
    (InCall /\ a >= b /\ OddFrom3) =>
        /\ "scale" \notin Range(stages)
        /\ out = <<>>
        /\ Returned => pc = "error"

\* C4: for an odd n_node >= 3, a < b and f of degree <= 3 the call does not
\* fail, and once the sum has been scaled by h/6 the estimate sum_n is the
\* analytic integral of f over [a, b].
C4_ExactForCubics ==
    (InCall /\ OddFrom3 /\ a < b /\ f[5] = 0) =>
        /\ pc # "error"
        /\ "scale" \in Range(stages) => sum_n = AnalyticIntegral(f, a, b)
C4_Witness ==
    /\ pc = "done" /\ f = <<0, 0, 0, 1, 0>> /\ a = 0 /\ b = 1 /\ n_node = 3
    /\ sum_n = <<1, 4>>

\* C5: for an odd n_node >= 3, a < b and any value sequence of length
\* n_node, the pairwise sum scaled by h/6 that approx computes equals the
\* weighted form (h_single/3)(values[0] + 4 (odd interior) + 2 (even
\* interior) + values[last]) with h_single = (b - a)/(n_node - 1).
C5_FormsAgree ==
    "scale" \in Range(stages) =>
        sum_n = WeightedForm(values, a, b, n_node)
C5_Witness ==
    /\ pc = "quad" /\ n_node = 5 /\ a = 0 /\ b = 1
    /\ values = << <<1, 1>>, <<0, 1>>, <<-1, 1>>, <<1, 1>>, <<1, 1>> >>
    /\ sum_n = WeightedForm(values, a, b, n_node)
    /\ sum_n = <<1, 3>>

\* C6: a call repeated with the same arguments ends as the call before it
\* did: the same lines printed, or the same error raised.
C6_RepeatedCallSameOutcome ==
    (calls >= 2 /\ Returned) => (out = prev.out /\ err = prev.err)
C6_Witness ==
    /\ calls = 2 /\ pc = "done" /\ Len(out) = 3 /\ out = prev.out
    /\ out[3].value # <<0, 1>>

\* C7: a call prints at most three lines and a call that returns has printed
\* exactly three: the reference value, then the estimate, then a difference
\* d that is result - sum_n or sum_n - result, is not negative, is zero
\* exactly when the two values shown above it are equal, and is shown
\* without a minus sign.
C7_Report ==
    /\ Len(out) <= 3
    /\ pc = "done" =>
        /\ Len(out) = 3
        /\ out[1].label = "Python calculated:" /\ out[1].value = result
        /\ out[2].label = "We calculated:" /\ out[2].value = sum_n
        /\ out[3].label = "Difference is"
        /\ LET x == out[1].value
               y == out[2].value
               d == out[3].value
           IN  /\ d[1] >= 0
               /\ \/ d[1] * x[2] * y[2] = d[2] * (x[1] * y[2] - y[1] * x[2])
                  \/ d[1] * x[2] * y[2] = d[2] * (y[1] * x[2] - x[1] * y[2])
               /\ (d[1] = 0) <=> (x = y)
               /\ ~out[3].text.neg
C7_Witness ==
    /\ pc = "done" /\ Len(out) = 3
    /\ out[1].value[1] * out[2].value[2] < out[2].value[1] * out[1].value[2]
    /\ out[3].value[1] > 0

\* f at the rational x, as the power sum c0 + c1 x + ... + c4 x^4 over the
\* common denominator den^4.
PolyAt(c, x) ==
    LET u == x[1]
        d == x[2]
    IN  Rat(c[1] * d * d * d * d + c[2] * u * d * d * d + c[3] * u * u * d * d
            + c[4] * u * u * u * d + c[5] * u * u * u * u,
            d * d * d * d)

\* C8: for an odd n_node >= 3 and a < b, once the nodes are built there are
\* n_node of them, node[k] = a + k (b - a)/(n_node - 1) for k in
\* 0..n_node-1 (the first is a, the last is b, each is less than the next),
\* and values has the same length with values[k] = f(node[k]).
C8_NodesAndValues ==
    (InCall /\ OddFrom3 /\ a < b /\ "sample" \in Range(stages)) =>
        /\ Len(nodes) = n_node /\ Len(values) = n_node
        /\ \A k \in 0..(n_node - 1) :
              /\ nodes[k + 1][1] * (n_node - 1) =
                   nodes[k + 1][2] * (a * (n_node - 1) + k * (b - a))
              /\ values[k + 1] = PolyAt(f, nodes[k + 1])
        /\ nodes[1] = <<a, 1>> /\ nodes[n_node] = <<b, 1>>
        /\ \A k \in 1..(n_node - 1) :
              nodes[k][1] * nodes[k + 1][2] < nodes[k + 1][1] * nodes[k][2]
C8_Witness ==
    /\ pc = "init" /\ n_node = 5 /\ a = -1 /\ b = 1
    /\ nodes = << <<-1, 1>>, <<-1, 2>>, <<0, 1>>, <<1, 2>>, <<1, 1>> >>
    /\ f = <<1, 0, 1, 0, 0>>
    /\ values = << <<2, 1>>, <<5, 4>>, <<1, 1>>, <<5, 4>>, <<2, 1>> >>

\* How often index k was read by the loop, and the sum of its factors.
ReadCount(k) == Cardinality({j \in 1..Len(terms) : terms[j][1] = k})
RECURSIVE WeightUpTo(_, _)
WeightUpTo(k, j) ==
    IF j = 0 THEN 0
    ELSE WeightUpTo(k, j - 1) + (IF terms[j][1] = k THEN terms[j][2] ELSE 0)
Weight(k) == WeightUpTo(k, Len(terms))

\* C9: for an odd n_node >= 3 the loop never fails and reads only indices in
\* 0..n_node-1; it ends after exactly n = (n_node - 1)/2 iterations, where
\* 2n + 1 = n_node and h is twice the node spacing; then index 0 and index
\* n_node-1 were each read once with factor 1, every odd index once with
\* factor 4, and every interior even index twice with factor 1 each time.
C9_LoopCoversEveryNode ==
    (InCall /\ OddFrom3) =>
        /\ pc # "error"
        /\ \A j \in 1..Len(terms) : terms[j][1] \in 0..(n_node - 1)
        /\ "loop" \in Range(stages) =>
            /\ i = n /\ Len(terms) = 3 * n
            /\ 2 * n + 1 = n_node
            /\ h[1] * (n_node - 1) = h[2] * 2 * (b - a)
            /\ \A k \in 0..(n_node - 1) :
                  IF k = 0 \/ k = n_node - 1
                  THEN ReadCount(k) = 1 /\ Weight(k) = 1
                  ELSE IF k % 2 = 1
                  THEN ReadCount(k) = 1 /\ Weight(k) = 4
                  ELSE ReadCount(k) = 2 /\ Weight(k) = 2
            /\ n_node = 3 => terms = << <<0, 1>>, <<1, 4>>, <<2, 1>> >>
C9_Witness ==
    /\ pc = "scale" /\ n_node = 7 /\ i = 3 /\ Len(terms) = 9
    /\ ReadCount(2) = 2 /\ ReadCount(4) = 2 /\ Weight(3) = 4

\* C10: the statements of a call complete in the order check, setup,
\* sample, init, loop, scale, quad, print1, print2, print3; a line is in
\* the output only after the check, the sampling, the summation and the
\* reference integration have completed, one line per completed print; a
\* call that has failed has printed nothing.
C10_StageOrder ==
    LET Expected == <<"check", "setup", "sample", "init", "loop", "scale",
                      "quad", "print1", "print2", "print3">>
    IN  /\ Len(stages) <= Len(Expected)
        /\ stages = SubSeq(Expected, 1, Len(stages))
        /\ out # <<>> => {"check", "sample", "scale", "quad"} \subseteq Range(stages)
        /\ Len(out) = Cardinality(Range(stages) \cap {"print1", "print2", "print3"})
        /\ pc = "error" => out = <<>>
        /\ pc = "done" => Len(stages) = Len(Expected)
C10_Witness ==
    /\ pc = "print2" /\ Len(out) = 1
    /\ stages = <<"check", "setup", "sample", "init", "loop", "scale",
                  "quad", "print1">>

====
